---- MODULE Spec2Model ----
(***************************************************************************)
(* Vehicle dynamics of the OFFRoute car simulator.                         *)
(*                                                                         *)
(* Two implementations share one state shape: the React application       *)
(* (CarContext reducer + updatePhysics, App keyboard hook, GearShift) and *)
(* the vanilla CarSimulator class (frontend/app.js).  The variable impl   *)
(* selects which of the two a behaviour runs.                             *)
(*                                                                         *)
(* JavaScript numbers are modelled in fixed point:                         *)
(*   speed       1/100 km/h          heading     1/1000 degree             *)
(*   rpm         1 rpm               lat, lng    1e-7 degree               *)
(*   pedals      percent             elapsed time  millisecond             *)
(*   steering    degree                                                    *)
(* Quotients round toward zero, as the magnitude of a float quotient does. *)
(***************************************************************************)
EXTENDS Integers, Sequences, FiniteSets, TLC

VARIABLES
    impl,     \* "react" or "vanilla": which implementation is running
    state,    \* the car state object (CarContext state / this.state)
    last,     \* the handler that ran last, with its arguments
    ticks,    \* number of game-loop frames run so far
    cmds,     \* number of operator commands handled so far
    ui,       \* what the input components remember between events
    net       \* geocoding and routing requests in flight

vars == <<impl, state, last, ticks, cmds, ui, net>>

-----------------------------------------------------------------------------
(* Bounds of the exploration *)

MaxTicks == 2
MaxCmds == 2
MaxRunTicks == 120

-----------------------------------------------------------------------------
(* Arithmetic helpers *)

\* The value that stands for the JavaScript NaN in a numeric field.  It is
\* below every number of the model, so that x > c and x = c are false for it
\* as they are for NaN; x < c is guarded where the code evaluates it.
NaN == -999999999

Min(a, b) == IF a <= b THEN a ELSE b
Max(a, b) == IF a >= b THEN a ELSE b
Abs(a) == IF a >= 0 THEN a ELSE -a

\* Quotient rounded toward zero (symmetric in the sign of a), b > 0.
Quot(a, b) == IF a >= 0 THEN a \div b ELSE -((-a) \div b)

\* The JavaScript % operator: the remainder takes the sign of the dividend.
JsMod(a, m) == IF a >= 0 THEN a % m ELSE -((-a) % m)

\* Math.round of x / 10 for x >= 0.
MathRound10(x) == (x + 5) \div 10

\* Math.sin for an angle of d tenths of a degree, 0 <= d <= 1800, times 1000
\* (Bhaskara's rational approximation: exact at 0, 30, 90, 150, 180 degrees).
SinDeci(d) ==
    LET p == d * (1800 - d)
    IN  (2000 * p) \div ((4050000 - p) \div 2)

\* Math.sin(a * PI / 180) * 1000 for an angle a in 1/1000 degree.
Sin1000(a) ==
    LET d == (a % 360000) \div 100
    IN  IF d <= 1800 THEN SinDeci(d) ELSE -SinDeci(d - 1800)

\* Math.cos(a * PI / 180) * 1000 for an angle a in 1/1000 degree.
Cos1000(a) == Sin1000(a + 90000)

-----------------------------------------------------------------------------
(* Configuration *)

Gears == {"N", "R", "1", "2", "3", "4", "5"}

\* CarContext physics constants (km/h, km/h per second, degrees per second).
physics ==
    [maxSpeed |-> [g \in Gears |->
                     CASE g = "N" -> 0  [] g = "R" -> 30 [] g = "1" -> 50
                       [] g = "2" -> 80 [] g = "3" -> 120 [] g = "4" -> 160
                       [] g = "5" -> 200],
     acceleration |-> 12,
     brakeForce |-> 25,
     engineBrake |-> 4,
     turnRate |-> 60,
     maxRpm |-> 8000,
     idleRpm |-> 800]

\* CarSimulator physics constants; maxSpeed is indexed by gearIndex + 1.
vanillaPhysics ==
    [maxSpeed |-> <<0, 40, 80, 120, 160, 200>>,
     acceleration |-> 5,
     brakeForce |-> 15,
     engineBrake |-> 2,
     turnRate |-> 45,
     maxRpm |-> 8000,
     idleRpm |-> 800]

Null == <<>>

DefaultPosition == [lat |-> 129716000, lng |-> 775946000]

\* The state object after construction (the same in both implementations).
\* A non-null destination, route, distance or startPosition is held as a
\* one-element tuple.  The vanilla object has no startPosition field, kept
\* null, and its distance is the text of the distance display.
initialState ==
    [position |-> DefaultPosition,
     heading |-> 0,
     speed |-> 0,
     rpm |-> 0,
     gear |-> "N",
     engineOn |-> FALSE,
     steeringAngle |-> 0,
     clutch |-> 0,
     brake |-> 0,
     accelerator |-> 0,
     destination |-> Null,
     route |-> Null,
     distance |-> Null,
     startPosition |-> Null]

\* { ...s, ...p }: the fields of p override those of s.
Spread(s, p) == [k \in DOMAIN s |-> IF k \in DOMAIN p THEN p[k] ELSE s[k]]

-----------------------------------------------------------------------------
(* React: CarContext reducer *)

\* Variant of ReactToggleEngine: switching off leaves rpm as it was.
ReactToggleEngineKeepsRpm(s) ==
    LET newEngineState == ~s.engineOn
    IN  [s EXCEPT !.engineOn = newEngineState,
                  !.rpm = IF newEngineState THEN physics.idleRpm ELSE s.rpm,
                  !.speed = IF newEngineState THEN s.speed ELSE 0]

\* The TOGGLE_ENGINE case of the reducer.
ReactToggleEngine(s) ==
    LET newEngineState == ~s.engineOn
    IN  [s EXCEPT !.engineOn = newEngineState,
                  !.rpm = IF newEngineState THEN physics.idleRpm ELSE 0,
                  !.speed = IF newEngineState THEN s.speed ELSE 0]

\* Variant of ReactClearRoute: the distance is kept.
ReactClearRouteKeepsDistance(s) ==
    [s EXCEPT !.destination = Null, !.route = Null]

\* The CLEAR_ROUTE case of the reducer.
ReactClearRoute(s) ==
    [s EXCEPT !.destination = Null, !.route = Null, !.distance = Null]

carReducer(s, action) ==
    CASE action.type = "SET_STEERING" ->
           [s EXCEPT !.steeringAngle = action.payload]
      [] action.type = "SET_ACCELERATOR" ->
           [s EXCEPT !.accelerator = action.payload]
      [] action.type = "SET_BRAKE" ->
           [s EXCEPT !.brake = action.payload]
      [] action.type = "SET_CLUTCH" ->
           [s EXCEPT !.clutch = action.payload]
      [] action.type = "SET_GEAR" ->
           [s EXCEPT !.gear = action.payload]
      [] action.type = "TOGGLE_ENGINE" ->
           ReactToggleEngine(s)
      [] action.type = "UPDATE_PHYSICS" ->
           Spread(s, action.payload)
      [] action.type = "SET_DESTINATION" ->
           [s EXCEPT !.destination = <<action.payload>>]
      [] action.type = "SET_ROUTE" ->
           [s EXCEPT !.route = <<action.payload.route>>,
                     !.distance = <<action.payload.distance>>]
      [] action.type = "CLEAR_ROUTE" ->
           ReactClearRoute(s)
      [] action.type = "SET_POSITION" ->
           [s EXCEPT !.position = action.payload]
      [] action.type = "SET_START_POSITION" ->
           [s EXCEPT !.position = action.payload,
                     !.startPosition = <<action.payload>>,
                     !.heading = 0,
                     !.speed = 0,
                     !.destination = Null,
                     !.route = Null,
                     !.distance = Null]
      [] action.type = "RESET_CAR" ->
           [s EXCEPT !.heading = 0,
                     !.speed = 0,
                     !.rpm = IF s.engineOn THEN physics.idleRpm ELSE 0,
                     !.gear = "N",
                     !.steeringAngle = 0,
                     !.clutch = 0,
                     !.brake = 0,
                     !.accelerator = 0]
      [] OTHER -> s

-----------------------------------------------------------------------------
(* React: CarProvider.updatePhysics *)

\* Variant of SpeedDrop: the loss of a 100 ms frame, whatever dt is.
SpeedDropPerFrame(rate, num, den, dt) == (rate * num * 100) \div (den * 10)

\* Speed lost in dt ms at rate km/h per second, scaled by num / den.
SpeedDrop(rate, num, den, dt) == (rate * num * dt) \div (den * 10)

\* Variant of ClutchEngaged: the pedal position is not looked at.
ClutchEngagedAlways(s) == s.clutch # NaN

\* Variant of ClutchEngaged: the threshold is read the wrong way round.
ClutchEngagedWhenPressed(s) == s.clutch # NaN /\ s.clutch > 50

\* clutchEngaged: the clutch pedal is NOT pressed (NaN < 50 is false).
ClutchEngaged(s) == s.clutch # NaN /\ s.clutch < 50

\* Variant of ReactEngineOffSpeed: the result is not floored at 0.
ReactEngineOffSpeedUnfloored(s, dt) ==
    IF s.speed > 0
    THEN s.speed - SpeedDrop(physics.engineBrake, 1, 1, dt)
    ELSE s.speed

\* Engine off: coast to a stop.
ReactEngineOffSpeed(s, dt) ==
    IF s.speed > 0
    THEN Max(0, s.speed - SpeedDrop(physics.engineBrake, 1, 1, dt))
    ELSE s.speed

\* Variant of ReactForwardAccel: the result is not capped at the gear's
\* maximum speed.
ReactForwardAccelUncapped(speed, maxSpeedForGear, gain) ==
    IF speed < maxSpeedForGear
    THEN speed + gain
    ELSE speed

\* Forward gears: the speed after accelerating by gain.
ReactForwardAccel(speed, maxSpeedForGear, gain) ==
    IF speed < maxSpeedForGear
    THEN Min(maxSpeedForGear, speed + gain)
    ELSE speed

\* Speed after the gear-based movement block (acceleration, engine braking,
\* slow coast), before braking.
ReactPropulsion(s, dt) ==
    LET gearKey == s.gear
        maxSpeedForGear == physics.maxSpeed[gearKey] * 100
        \* accel in 1/1000 km/h per second:
        \* acceleration * throttle * (1 - speedRatio * 0.7)
        accel == IF maxSpeedForGear > 0
                 THEN (physics.acceleration * s.accelerator
                        * (10 * maxSpeedForGear
                            - 7 * Min(maxSpeedForGear, s.speed)))
                       \div maxSpeedForGear
                 ELSE physics.acceleration * s.accelerator * 10
        gain == (accel * dt) \div 10000
        afterAccel ==
            IF s.accelerator > 0
            THEN IF gearKey = "R"
                 THEN Min(physics.maxSpeed["R"] * 100, Max(0, s.speed + gain))
                 ELSE ReactForwardAccel(s.speed, maxSpeedForGear, gain)
            ELSE s.speed
    IN  IF gearKey # "N" /\ ClutchEngaged(s)
        THEN IF s.accelerator = 0 /\ s.brake = 0 /\ s.speed > 0
             THEN Max(0, s.speed - SpeedDrop(physics.engineBrake, 1, 1, dt))
             ELSE afterAccel
        ELSE IF s.speed > 0
             THEN Max(0, s.speed - SpeedDrop(physics.engineBrake, 1, 2, dt))
             ELSE s.speed

\* Braking (works regardless of gear), applied to the propulsion result.
ReactBraking(s, newSpeed, dt) ==
    IF s.brake > 0 /\ s.speed > 0
    THEN Max(0, newSpeed - SpeedDrop(physics.brakeForce, s.brake, 100, dt))
    ELSE newSpeed

\* Variant of ReactRpm: Neutral is tested before the clutch.
ReactRpmNeutralFirst(s) ==
    LET maxSpeedForGear == physics.maxSpeed[s.gear] * 100
        span == physics.maxRpm - physics.idleRpm
        \* tenths of rpm
        idle10 == physics.idleRpm * 10
        load10 == IF maxSpeedForGear > 0
                  THEN (Min(maxSpeedForGear, s.speed) * (span - 1000) * 10)
                        \div maxSpeedForGear
                  ELSE 0
    IN  IF s.accelerator = NaN
        THEN NaN
        ELSE IF s.gear = "N"
        THEN MathRound10(idle10 + s.accelerator * 400)
        ELSE IF ~ClutchEngaged(s)
             THEN MathRound10(idle10 + (s.accelerator * span * 8) \div 100)
             ELSE MathRound10(Min(physics.maxRpm * 10,
                                  idle10 + load10 + s.accelerator * 150))

\* Math.round(newRpm) of the three RPM regimes.
ReactRpm(s) ==
    LET maxSpeedForGear == physics.maxSpeed[s.gear] * 100
        span == physics.maxRpm - physics.idleRpm
        \* tenths of rpm
        idle10 == physics.idleRpm * 10
        load10 == IF maxSpeedForGear > 0
                  THEN (Min(maxSpeedForGear, s.speed) * (span - 1000) * 10)
                        \div maxSpeedForGear
                  ELSE 0
    IN  IF s.accelerator = NaN
        THEN NaN
        ELSE IF ~ClutchEngaged(s)
        THEN MathRound10(idle10 + (s.accelerator * span * 8) \div 100)
        ELSE IF s.gear = "N"
             THEN MathRound10(idle10 + s.accelerator * 400)
             ELSE MathRound10(Min(physics.maxRpm * 10,
                                  idle10 + load10 + s.accelerator * 150))

\* Heading change of one step in 1/1000 degree: turnRate * dt with
\* turnRate = rate * (steeringAngle / 540) * speedFactor, sf in 1/1000.
TurnDelta(rate, steeringAngle, sf, dt) ==
    LET perSecond == (rate * Abs(steeringAngle) * sf) \div 540
        magnitude == (perSecond * dt) \div 1000
    IN  IF steeringAngle >= 0 THEN magnitude ELSE -magnitude

\* ((h % 360) + 360) % 360
NormalizeHeading(h) == JsMod(JsMod(h, 360000) + 360000, 360000)

\* Variant of SteeredHeading: Reverse steers as the forward gears do.
SteeredHeadingForward(gear, heading, turn) ==
    NormalizeHeading(heading + turn)

\* The heading after turning by turn: the steering direction is reversed in
\* Reverse; the result is normalized to 0-360.
SteeredHeading(gear, heading, turn) ==
    NormalizeHeading(IF gear = "R" THEN heading - turn ELSE heading + turn)

\* Variant of Move: the deltas are not negated in Reverse.
MoveForward(position, gear, newHeading, newSpeed, dt) ==
    LET headingRad == newHeading - 90000
        distanceMm == (newSpeed * dt) \div 360
        cosLat == Cos1000(Quot(position.lat, 10000))
        latDelta == Quot(distanceMm * Cos1000(headingRad), 11132)
        lngDelta == Quot(distanceMm * Sin1000(headingRad),
                         (11132 * cosLat) \div 1000)
    IN  IF newHeading = NaN \/ position.lat = NaN
        THEN [lat |-> NaN, lng |-> NaN]
        ELSE [lat |-> position.lat + latDelta, lng |-> position.lng + lngDelta]

\* Position after moving at newSpeed for dt along newHeading
\* (headingRad = newHeading - 90 degrees; flat-earth conversion).  A NaN
\* heading or position makes both coordinates NaN.
Move(position, gear, newHeading, newSpeed, dt) ==
    LET headingRad == newHeading - 90000
        distanceMm == (newSpeed * dt) \div 360
        cosLat == Cos1000(Quot(position.lat, 10000))
        latDelta == Quot(distanceMm * Cos1000(headingRad), 11132)
        lngDelta == Quot(distanceMm * Sin1000(headingRad),
                         (11132 * cosLat) \div 1000)
    IN  IF newHeading = NaN \/ position.lat = NaN
        THEN [lat |-> NaN, lng |-> NaN]
        ELSE IF gear = "R"
        THEN [lat |-> position.lat - latDelta, lng |-> position.lng - lngDelta]
        ELSE [lat |-> position.lat + latDelta, lng |-> position.lng + lngDelta]

\* Variant of IsMoving: any speed above 0 moves the vehicle.
IsMovingAboveZero(newSpeed) == newSpeed > 0

\* newSpeed > 0.5: update position if moving.
IsMoving(newSpeed) == newSpeed > 50

\* The UPDATE_PHYSICS payload updatePhysics(deltaTime) dispatches.
updatePhysics(s, deltaTime) ==
    LET dt == Min(deltaTime, 100)
    IN  IF ~s.engineOn
        THEN [speed |-> ReactEngineOffSpeed(s, dt), rpm |-> 0]
        ELSE
          LET newSpeed == ReactBraking(s, ReactPropulsion(s, dt), dt)
              speedFactor == Max(300, 1000 - newSpeed \div 15)
              turn == TurnDelta(physics.turnRate, s.steeringAngle,
                                speedFactor, dt)
              \* a NaN steering angle or heading gives a NaN heading
              newHeading ==
                  IF s.steeringAngle = NaN \/ s.heading = NaN
                  THEN NaN
                  ELSE SteeredHeading(s.gear, s.heading, turn)
          IN  IF IsMoving(newSpeed)
              THEN [speed |-> newSpeed,
                    rpm |-> ReactRpm(s),
                    heading |-> newHeading,
                    position |-> Move(s.position, s.gear, newHeading,
                                      newSpeed, dt)]
              ELSE [speed |-> newSpeed,
                    rpm |-> ReactRpm(s),
                    heading |-> s.heading,
                    position |-> s.position]

-----------------------------------------------------------------------------
(* React: gear-change gate (GearShift buttons, App keyboard hook) *)

\* Variant of CanShift: both conditions are required.
CanShiftBoth(s) == s.clutch > 70 /\ s.speed < 500

\* canShift, also the condition of the keyboard gear keys 1-5 and R.
CanShift(s) == s.clutch > 70 \/ s.speed < 500

\* GearShift.handleGearChange(gear): the state after a click on a gear button.
handleGearChange(s, gear) ==
    IF ~CanShift(s) /\ s.gear # "N"
    THEN s
    ELSE carReducer(s, [type |-> "SET_GEAR", payload |-> gear])

\* App.handleKeyDown for the gear keys 1-5, r and n (first press of the key).
handleKeyDownGear(s, gear) ==
    IF gear = "N"
    THEN carReducer(s, [type |-> "SET_GEAR", payload |-> "N"])
    ELSE IF CanShift(s)
         THEN carReducer(s, [type |-> "SET_GEAR", payload |-> gear])
         ELSE s

\* App gameLoop: one animation frame, deltaTime ms after the previous one.
ReactGameLoop(s, deltaTime) ==
    IF deltaTime > 0 /\ deltaTime < 500
    THEN carReducer(s, [type |-> "UPDATE_PHYSICS",
                        payload |-> updatePhysics(s, deltaTime)])
    ELSE s

-----------------------------------------------------------------------------
(* Vanilla: CarSimulator *)

\* gearIndex: N is 0, R is 1, otherwise parseInt(gear).
GearIndex(gear) ==
    CASE gear = "N" -> 0 [] gear = "R" -> 1 [] gear = "1" -> 1
      [] gear = "2" -> 2 [] gear = "3" -> 3 [] gear = "4" -> 4
      [] gear = "5" -> 5

\* The click and keydown handlers of initGearbox refuse a change with
\* clutch < 70 and speed > 5.
VanillaGearRefused(s) == s.clutch < 70 /\ s.speed > 500

VanillaSetGear(s, gear) ==
    IF VanillaGearRefused(s) THEN s ELSE [s EXCEPT !.gear = gear]

\* initEngine click handler.
VanillaToggleEngine(s) ==
    IF ~s.engineOn
    THEN [s EXCEPT !.engineOn = TRUE]
    ELSE [s EXCEPT !.engineOn = FALSE, !.rpm = 0]

\* Forward gears and Reverse: the speed after accelerating by gain.
VanillaAccel(s, maxSpeedForGear, gain) ==
    IF s.accelerator > 0 /\ s.speed < maxSpeedForGear
    THEN IF s.gear = "R"
         THEN Min(3000, s.speed + gain)
         ELSE Min(maxSpeedForGear, s.speed + gain)
    ELSE s.speed

\* Speed after CarSimulator.updatePhysics with the engine on.
VanillaSpeed(s, deltaTime) ==
    LET p == vanillaPhysics
        maxSpeedForGear == p.maxSpeed[GearIndex(s.gear) + 1] * 100
        \* accel in 1/1000 km/h per second:
        \* acceleration * throttle * (1 - speedRatio * 0.5), speedRatio < 1
        accel == IF maxSpeedForGear > 0
                 THEN (p.acceleration * s.accelerator
                        * (10 * maxSpeedForGear - 5 * s.speed))
                       \div maxSpeedForGear
                 ELSE p.acceleration * s.accelerator * 10
        gain == (accel * deltaTime) \div 10000
        afterAccel == VanillaAccel(s, maxSpeedForGear, gain)
        afterBrake ==
            IF s.brake > 0
            THEN Max(0, afterAccel
                         - SpeedDrop(p.brakeForce, s.brake, 100, deltaTime))
            ELSE afterAccel
    IN  IF s.gear # "N" /\ s.clutch < 50
        THEN IF s.accelerator = 0 /\ s.brake = 0
             THEN Max(0, afterBrake - SpeedDrop(p.engineBrake, 1, 1, deltaTime))
             ELSE afterBrake
        ELSE Max(0, s.speed - SpeedDrop(p.engineBrake, 1, 2, deltaTime))

\* this.state.rpm after CarSimulator.updatePhysics with the engine on
\* (speedRatio is taken from the speed before the step and is not clamped).
VanillaRpm(s) ==
    LET p == vanillaPhysics
        maxSpeedForGear == p.maxSpeed[GearIndex(s.gear) + 1] * 100
        span == p.maxRpm - p.idleRpm
    IN  IF s.clutch > 50
        THEN p.idleRpm + (s.accelerator * span) \div 100
        ELSE IF s.gear = "N"
             THEN p.idleRpm + s.accelerator * 30
             ELSE p.idleRpm + (IF maxSpeedForGear > 0
                               THEN (s.speed * span) \div maxSpeedForGear
                               ELSE 0)

\* Variant of VanillaEngineOffSpeed: the speed is that of an engine-on step.
VanillaEngineOffSpeedDriven(s, deltaTime) == VanillaSpeed(s, deltaTime)

\* Engine off - car decelerates.
VanillaEngineOffSpeed(s, deltaTime) ==
    Max(0, s.speed - SpeedDrop(vanillaPhysics.engineBrake, 1, 1, deltaTime))

\* CarSimulator.updatePhysics(deltaTime).
VanillaUpdatePhysics(s, deltaTime) ==
    IF ~s.engineOn
    THEN [s EXCEPT !.speed = VanillaEngineOffSpeed(s, deltaTime), !.rpm = 0]
    ELSE [s EXCEPT !.speed = VanillaSpeed(s, deltaTime),
                   !.rpm = VanillaRpm(s)]

\* CarSimulator.updatePosition(deltaTime).
VanillaUpdatePosition(s, deltaTime) ==
    IF s.speed < 10
    THEN s
    ELSE
      LET speedFactor == Min(1000, s.speed \div 5)
          turn == TurnDelta(vanillaPhysics.turnRate, s.steeringAngle,
                            speedFactor, deltaTime)
          newHeading == SteeredHeading(s.gear, s.heading, turn)
      IN  [s EXCEPT !.heading = newHeading,
                    !.position = Move(s.position, s.gear, newHeading,
                                      s.speed, deltaTime)]

\* clearRoute, were it to stop the vehicle as well.
VanillaClearRouteStops(s) ==
    [s EXCEPT !.destination = Null, !.route = Null, !.distance = Null,
              !.speed = 0]

\* CarSimulator.clearRoute (the distance display shows '--').
VanillaClearRoute(s) ==
    [s EXCEPT !.destination = Null, !.route = Null, !.distance = Null]

\* calculateDistance(...) < 0.05: the two points are less than 50 m apart
\* (offsets in decimetres, 1e-7 degree of latitude being 0.0111195 m).
WithinFiftyMetres(p, d) ==
    LET dLat == Abs(d.lat - p.lat)
        dLon == Abs(d.lng - p.lng)
        north == (dLat * 111195) \div 1000000
        east == (((dLon * 111195) \div 1000000)
                    * Cos1000(Quot(p.lat, 10000))) \div 1000
    IN  /\ dLat < 5000
        /\ dLon < 5000
        /\ north * north + east * east < 500 * 500

\* A distance is held by the two points it was computed between and by
\* how it was computed: along the road ("road", the routing service) or as
\* the crow flies ("line", calculateDistance).
Distance(from, to, via) == [from |-> from, to |-> to, via |-> via]

\* The part of CarSimulator.updateMapPosition that concerns the destination:
\* the distance display is refreshed and arrival within 50 m clears the
\* route.
VanillaUpdateMapPosition(s) ==
    IF s.destination = Null
    THEN s
    ELSE IF WithinFiftyMetres(s.position, s.destination[1])
         THEN VanillaClearRoute(s)
         ELSE [s EXCEPT !.distance =
                   <<Distance(s.position, s.destination[1], "line")>>]

\* CarSimulator.gameLoop: updatePhysics, updatePosition, updateMapPosition.
VanillaGameLoop(s, deltaTime) ==
    VanillaUpdateMapPosition(
        VanillaUpdatePosition(VanillaUpdatePhysics(s, deltaTime), deltaTime))

-----------------------------------------------------------------------------
(* Inputs *)

Impls == {"react", "vanilla"}

\* Pedal positions the operator produces: released (0), the keyboard's 100,
\* and pointer positions at the thresholds the code tests (50, 70).
ClutchValues == {0, 50, 70, 100}
BrakeValues == {0, 10, 100}
AcceleratorValues == {0, 100}
SteeringValues == {-540, 0, 540}

\* Milliseconds between two animation frames.
Gaps == {0, 100, 600}

\* Speeds (1/100 km/h) at which the vehicle is found coasting in Neutral.
CruiseSpeeds == {400, 500, 4000, 6000}

StartPositions == {[lat |-> 285000000, lng |-> 771000000]}

-----------------------------------------------------------------------------
(* The simulator as a state machine *)

Op(name, gear, dt) == [op |-> name, gear |-> gear, dt |-> dt]

\* What the input components remember before any event: the steering wheel
\* is not being dragged (startAngleRef and, in the vanilla page, startAngle
\* and currentRotation are 0), no pedal is pressed by the pointer and no key
\* is down.
InitialUi ==
    [isDragging |-> FALSE,
     startAngle |-> 0,
     currentRotation |-> 0,
     isPressed |-> {},
     keysPressed |-> {}]

\* A state the vehicle is in while coasting in Neutral with the engine
\* running, brake and accelerator released and the clutch at c: it was driven
\* up to speed v, shifted to Neutral and has run one frame (with no throttle
\* rpm is at idle in both implementations, whatever the clutch).
Cruising(v, c) ==
    [initialState EXCEPT !.engineOn = TRUE,
                         !.rpm = physics.idleRpm,
                         !.speed = v,
                         !.clutch = c]

Init ==
    /\ impl \in Impls
    /\ state \in {initialState}
                  \cup {Cruising(v, c) : v \in CruiseSpeeds, c \in {0, 100}}
    /\ last = Op("init", "", 0)
    /\ ticks = 0
    /\ cmds = 0
    /\ ui = InitialUi
    /\ net = {}

\* An operator command: the handler's result becomes the state.
Command(name, gear, result) ==
    /\ state' = result
    /\ last' = Op(name, gear, 0)
    /\ cmds' = cmds + 1
    /\ UNCHANGED <<impl, ticks, ui, net>>

\* Steering wheel drag or arrow key: the clamped angle a is stored.
SetSteering ==
    /\ cmds < MaxCmds
    /\ \E a \in SteeringValues :
        Command("steering", "",
                IF impl = "react"
                THEN carReducer(state, [type |-> "SET_STEERING", payload |-> a])
                ELSE [state EXCEPT !.steeringAngle = a])

\* Pedal press, drag, release or key: the percentage v is stored.
SetAccelerator ==
    /\ cmds < MaxCmds
    /\ \E v \in AcceleratorValues :
        Command("accelerator", "",
                IF impl = "react"
                THEN carReducer(state, [type |-> "SET_ACCELERATOR", payload |-> v])
                ELSE [state EXCEPT !.accelerator = v])

SetBrake ==
    /\ cmds < MaxCmds
    /\ \E v \in BrakeValues :
        Command("brake", "",
                IF impl = "react"
                THEN carReducer(state, [type |-> "SET_BRAKE", payload |-> v])
                ELSE [state EXCEPT !.brake = v])

SetClutch ==
    /\ cmds < MaxCmds
    /\ \E v \in ClutchValues :
        Command("clutch", "",
                IF impl = "react"
                THEN carReducer(state, [type |-> "SET_CLUTCH", payload |-> v])
                ELSE [state EXCEPT !.clutch = v])

\* Click on a gear button (the Neutral button included).
GearButton ==
    /\ cmds < MaxCmds
    /\ \E g \in Gears :
        Command("gearButton", g,
                IF impl = "react"
                THEN handleGearChange(state, g)
                ELSE VanillaSetGear(state, g))

\* Gear key 1-5, R or N.
GearKey ==
    /\ cmds < MaxCmds
    /\ \E g \in Gears :
        Command("gearKey", g,
                IF impl = "react"
                THEN handleKeyDownGear(state, g)
                ELSE VanillaSetGear(state, g))

\* Engine button (or the E key in React).
ToggleEngine ==
    /\ cmds < MaxCmds
    /\ Command("toggleEngine", "",
            IF impl = "react"
            THEN carReducer(state, [type |-> "TOGGLE_ENGINE"])
            ELSE VanillaToggleEngine(state))

\* React only: a start position is chosen in the destination panel.
SetStartPosition ==
    /\ cmds < MaxCmds
    /\ impl = "react"
    /\ \E p \in StartPositions :
        Command("setStartPosition", "",
                carReducer(state, [type |-> "SET_START_POSITION", payload |-> p]))

\* React only: the reducer's RESET_CAR action (the reducer handles it; no
\* component of the application dispatches it yet).
ResetCar ==
    /\ cmds < MaxCmds
    /\ impl = "react"
    /\ Command("resetCar", "", carReducer(state, [type |-> "RESET_CAR"]))

\* One animation frame, gap ms after the previous one.
GameLoop ==
    /\ ticks < MaxTicks
    /\ \E gap \in Gaps :
        /\ state' = IF impl = "react" THEN ReactGameLoop(state, gap)
                                     ELSE VanillaGameLoop(state, gap)
        /\ last' = Op("gameLoop", "", gap)
    /\ ticks' = ticks + 1
    /\ UNCHANGED <<impl, cmds, ui, net>>

Next ==
    \/ SetSteering
    \/ SetAccelerator
    \/ SetBrake
    \/ SetClutch
    \/ GearButton
    \/ GearKey
    \/ ToggleEngine
    \/ SetStartPosition
    \/ ResetCar
    \/ GameLoop

Spec == Init /\ [][Next]_vars

-----------------------------------------------------------------------------
(* One step of the dynamics on its own, as a function of its inputs *)

StepSpeeds == {0, 30, 60, 400, 500, 3500, 4000, 6000, 20000}
StepHeadings == {0, 90000, 359000}
StepClutchValues == {0, 50, 51, 100}
StepAcceleratorValues == {0, 50, 100}
StepDts == {0, 16, 100, 300}

\* The states a step is applied to.
StepInputs ==
    {[initialState EXCEPT !.engineOn = e, !.rpm = r, !.gear = g, !.speed = v,
                          !.heading = h, !.steeringAngle = a, !.clutch = c,
                          !.brake = b, !.accelerator = x] :
        e \in BOOLEAN, r \in {0, 800, 4800}, g \in Gears, v \in StepSpeeds,
        h \in StepHeadings, a \in SteeringValues, c \in StepClutchValues,
        b \in BrakeValues, x \in StepAcceleratorValues}

InitStep ==
    /\ impl \in Impls
    /\ state \in StepInputs
    /\ state.engineOn = (state.rpm # 0)
    /\ last = Op("init", "", 0)
    /\ ticks = 0
    /\ cmds = 0
    /\ ui = InitialUi
    /\ net = {}

\* The state after one step: updatePhysics(dt) and its UPDATE_PHYSICS in
\* React, updatePhysics(dt), updatePosition(dt) and updateMapPosition() of
\* the vanilla game loop.
StepResult(s, dt) ==
    IF impl = "react"
    THEN carReducer(s, [type |-> "UPDATE_PHYSICS",
                        payload |-> updatePhysics(s, dt)])
    ELSE VanillaGameLoop(s, dt)

\* One step applied to the state.
Step ==
    /\ ticks = 0
    /\ \E dt \in StepDts :
        /\ state' = StepResult(state, dt)
        /\ last' = Op("step", "", dt)
    /\ ticks' = 1
    /\ UNCHANGED <<impl, cmds, ui, net>>

NextStep == Step

SpecStep == InitStep /\ [][NextStep]_vars

-----------------------------------------------------------------------------
(* Full throttle in gear 1 from standstill, frames at a fixed interval *)

ThrottleGaps == {50, 100, 1000}

\* Engine started, gear 1 selected at standstill, accelerator held down
\* (the vanilla engine button leaves rpm to the next frame).
InitThrottle ==
    /\ impl \in Impls
    /\ state = [initialState EXCEPT
                    !.engineOn = TRUE,
                    !.rpm = IF impl = "react" THEN physics.idleRpm ELSE 0,
                    !.gear = "1",
                    !.accelerator = 100]
    /\ \E gap \in ThrottleGaps :
        /\ impl = "react" => gap < 500
        /\ last = Op("init", "", gap)
    /\ ticks = 0
    /\ cmds = 0
    /\ ui = InitialUi
    /\ net = {}

\* The next frame, the same interval after the previous one.
HoldThrottleFrame ==
    /\ ticks < MaxRunTicks
    /\ state' = IF impl = "react" THEN ReactGameLoop(state, last.dt)
                                 ELSE VanillaGameLoop(state, last.dt)
    /\ last' = Op("gameLoop", "", last.dt)
    /\ ticks' = ticks + 1
    /\ UNCHANGED <<impl, cmds, ui, net>>

NextThrottle == HoldThrottleFrame

SpecThrottle == InitThrottle /\ [][NextThrottle]_vars

-----------------------------------------------------------------------------
(* Engine off: frames at a fixed interval *)

CoastGaps == {50, 100}
CoastSpeeds == {0, 400, 1000}

\* The engine is off.  The vanilla engine button leaves the speed as it is,
\* so the vehicle may be rolling at any speed in any gear; the React toggle
\* has set the speed to 0.  The pedals and the gear lever are wherever the
\* operator left them.
InitCoast ==
    /\ impl \in Impls
    /\ \E v \in CoastSpeeds, g \in Gears, x \in AcceleratorValues,
          c \in {0, 100}, gap \in CoastGaps :
        /\ impl = "react" => v = 0
        /\ state = [initialState EXCEPT !.speed = v, !.gear = g,
                                        !.accelerator = x, !.clutch = c]
        /\ last = Op("init", "", gap)
    /\ ticks = 0
    /\ cmds = 0
    /\ ui = InitialUi
    /\ net = {}

\* The next frame, the same interval after the previous one
\* (requestAnimationFrame schedules it from within every frame).
CoastFrame ==
    /\ state' = IF impl = "react" THEN ReactGameLoop(state, last.dt)
                                 ELSE VanillaGameLoop(state, last.dt)
    /\ last' = Op("gameLoop", "", last.dt)
    /\ UNCHANGED <<impl, ticks, cmds, ui, net>>

NextCoast == CoastFrame

SpecCoast == InitCoast /\ [][NextCoast]_vars /\ WF_vars(CoastFrame)

-----------------------------------------------------------------------------
(* The driving procedure of the README, frames at a fixed interval *)

DriveGaps == {100, 200}

\* Number of frames after the procedure is complete.
MaxDriveTicks == 120

\* How to Drive, steps 2 to 4: start the engine, hold the clutch, select
\* first gear, release the clutch, hold the throttle.
DriveProcedure ==
    <<"toggleEngine", "clutchDown", "gearKey", "clutchUp", "acceleratorDown">>

\* The handler of one step of the procedure.
DriveHandler(name, s) ==
    CASE name = "toggleEngine" ->
           IF impl = "react" THEN carReducer(s, [type |-> "TOGGLE_ENGINE"])
                             ELSE VanillaToggleEngine(s)
      [] name = "clutchDown" ->
           IF impl = "react"
           THEN carReducer(s, [type |-> "SET_CLUTCH", payload |-> 100])
           ELSE [s EXCEPT !.clutch = 100]
      [] name = "gearKey" ->
           IF impl = "react" THEN handleKeyDownGear(s, "1")
                             ELSE VanillaSetGear(s, "1")
      [] name = "clutchUp" ->
           IF impl = "react"
           THEN carReducer(s, [type |-> "SET_CLUTCH", payload |-> 0])
           ELSE [s EXCEPT !.clutch = 0]
      [] name = "acceleratorDown" ->
           IF impl = "react"
           THEN carReducer(s, [type |-> "SET_ACCELERATOR", payload |-> 100])
           ELSE [s EXCEPT !.accelerator = 100]

InitDrive ==
    /\ impl \in Impls
    /\ state = initialState
    /\ \E gap \in DriveGaps : last = Op("init", "", gap)
    /\ ticks = 0
    /\ cmds = 0
    /\ ui = InitialUi
    /\ net = {}

\* The operator performs the next step of the procedure.
ProcedureStep ==
    /\ cmds < Len(DriveProcedure)
    /\ state' = DriveHandler(DriveProcedure[cmds + 1], state)
    /\ last' = Op(DriveProcedure[cmds + 1], "", last.dt)
    /\ cmds' = cmds + 1
    /\ UNCHANGED <<impl, ticks, ui, net>>

\* The next frame, the same interval after the previous one; frames are
\* counted from the moment the procedure is complete.
DriveFrame ==
    /\ ticks < MaxDriveTicks
    /\ state' = IF impl = "react" THEN ReactGameLoop(state, last.dt)
                                 ELSE VanillaGameLoop(state, last.dt)
    /\ last' = Op("gameLoop", "", last.dt)
    /\ ticks' = IF cmds = Len(DriveProcedure) THEN ticks + 1 ELSE ticks
    /\ UNCHANGED <<impl, cmds, ui, net>>

NextDrive ==
    \/ ProcedureStep
    \/ DriveFrame

SpecDrive ==
    InitDrive /\ [][NextDrive]_vars
        /\ WF_vars(ProcedureStep) /\ WF_vars(DriveFrame)

\* A place on Taveuni (Fiji), one metre east of the 180th meridian.
EdgePosition == [lat |-> -168000000, lng |-> -1799999900]

\* The same drive after step 1 of the README: the start position was set
\* to EdgePosition in the React panel; the vanilla page took it from the
\* browser's location when it loaded.
InitEdge ==
    /\ impl \in Impls
    /\ state = IF impl = "react"
               THEN carReducer(initialState,
                               [type |-> "SET_START_POSITION",
                                payload |-> EdgePosition])
               ELSE [initialState EXCEPT !.position = EdgePosition]
    /\ \E gap \in DriveGaps : last = Op("init", "", gap)
    /\ ticks = 0
    /\ cmds = 0
    /\ ui = InitialUi
    /\ net = {}

SpecEdge == InitEdge /\ [][NextDrive]_vars

-----------------------------------------------------------------------------
(* Input events: pointer and keyboard handlers of the wheel and the pedals *)

\* a - b in JavaScript arithmetic: NaN if either operand is NaN.
NumSub(a, b) == IF a = NaN \/ b = NaN THEN NaN ELSE a - b

\* Math.max(lo, Math.min(hi, x)): NaN if x is NaN.
MathClamp(lo, hi, x) == IF x = NaN THEN NaN ELSE Max(lo, Min(hi, x))

Pedals == {"clutch", "brake", "accelerator"}

\* getBoundingClientRect() of a pedal track, in pixels.
TrackRect == [top |-> 200, height |-> 120]

\* Pointer events: the kind of event, its clientY (above the pedal track,
\* on it, below it, and on the first pixel row of the viewport) and the
\* direction of the pointer seen from the centre of the steering wheel (what
\* Math.atan2 returns, in degrees).
Pointers ==
    {[kind |-> "mouse", clientY |-> 0, angle |-> 170],
     [kind |-> "mouse", clientY |-> 150, angle |-> -170],
     [kind |-> "mouse", clientY |-> 260, angle |-> 170],
     [kind |-> "mouse", clientY |-> 400, angle |-> -170],
     [kind |-> "touch", clientY |-> 200, angle |-> -170],
     [kind |-> "touch", clientY |-> 0, angle |-> 170]}

\* The pointer is on the pedal track (where a press on a pedal happens).
OnTrack(e) ==
    /\ e.clientY >= TrackRect.top
    /\ e.clientY <= TrackRect.top + TrackRect.height

Keys == {"w", "s", " ", "c", "ArrowLeft", "ArrowRight"}

\* e.clientY || e.touches?.[0]?.clientY (React): a mouse event with
\* clientY = 0 has no touches, the result is undefined and every number
\* computed from it is NaN.
ReactClientY(e) == IF e.kind = "mouse" /\ e.clientY = 0 THEN NaN ELSE e.clientY

\* (e.clientY || e.touches[0].clientY) (vanilla): the same mouse event
\* throws a TypeError, which ends the handler.
VanillaThrows(e) == e.kind = "mouse" /\ e.clientY = 0

\* Pedal.updateValue / updatePedal: the percentage of a clientY.
Percentage(clientY) ==
    LET rect == TrackRect
        y == NumSub(clientY, rect.top)
    IN  IF y = NaN
        THEN NaN
        ELSE MathClamp(0, 100, ((rect.height - y) * 100) \div rect.height)

\* The reducer action the onChange of a pedal dispatches.
PedalAction(pedal, v) ==
    [type |-> CASE pedal = "clutch" -> "SET_CLUTCH"
                [] pedal = "brake" -> "SET_BRAKE"
                [] pedal = "accelerator" -> "SET_ACCELERATOR",
     payload |-> v]

\* The state after onChange(v) of each pedal of the set ps.
RECURSIVE ReactSetPedals(_, _, _)
ReactSetPedals(s, ps, v) ==
    IF ps = {}
    THEN s
    ELSE LET pedal == CHOOSE x \in ps : TRUE
         IN  ReactSetPedals(carReducer(s, PedalAction(pedal, v)),
                            ps \ {pedal}, v)

\* The state after this.state[stateKey] = v for each pedal of the set ps.
VanillaSetPedals(s, ps, v) ==
    [k \in DOMAIN s |-> IF k \in ps THEN v ELSE s[k]]

\* getAngle (React): Math.atan2 of the pointer offsets, NaN for a mouse event
\* with a zero coordinate.
ReactGetAngle(e) == IF e.kind = "mouse" /\ e.clientY = 0 THEN NaN ELSE e.angle

\* Arrow keys (React): 25 degrees a press, limited to -540..540.
ReactArrow(s, key) ==
    IF s.steeringAngle = NaN
    THEN NaN
    ELSE IF key = "ArrowLeft"
         THEN Max(-540, s.steeringAngle - 25)
         ELSE Min(540, s.steeringAngle + 25)

\* App.handleKeyDown for the pedal and arrow keys (a repeated keydown of a
\* key that is still down was filtered out before).
ReactKeyDown(s, key) ==
    CASE key = "w" -> carReducer(s, [type |-> "SET_ACCELERATOR", payload |-> 100])
      [] key \in {"s", " "} -> carReducer(s, [type |-> "SET_BRAKE", payload |-> 100])
      [] key = "c" -> carReducer(s, [type |-> "SET_CLUTCH", payload |-> 100])
      [] key \in {"ArrowLeft", "ArrowRight"} ->
           carReducer(s, [type |-> "SET_STEERING", payload |-> ReactArrow(s, key)])
      [] OTHER -> s

\* App.handleKeyUp.
ReactKeyUp(s, key) ==
    CASE key = "w" -> carReducer(s, [type |-> "SET_ACCELERATOR", payload |-> 0])
      [] key \in {"s", " "} -> carReducer(s, [type |-> "SET_BRAKE", payload |-> 0])
      [] key = "c" -> carReducer(s, [type |-> "SET_CLUTCH", payload |-> 0])
      [] OTHER -> s

\* The keydown listeners of initPedals (W, S, Space); the arrow keys are
\* handled with currentRotation in the action, C has no listener.
VanillaKeyDown(s, key) ==
    CASE key = "w" -> [s EXCEPT !.accelerator = 100]
      [] key \in {"s", " "} -> [s EXCEPT !.brake = 100]
      [] OTHER -> s

\* The keyup listener of initPedals.
VanillaKeyUp(s, key) ==
    CASE key = "w" -> [s EXCEPT !.accelerator = 0]
      [] key \in {"s", " "} -> [s EXCEPT !.brake = 0]
      [] OTHER -> s

\* Arrow keys (vanilla): 15 degrees a keydown on currentRotation.
VanillaArrow(rotation, key) ==
    IF key = "ArrowLeft" THEN Max(-540, rotation - 15)
                         ELSE Min(540, rotation + 15)

\* Number of input events of a behaviour of SpecInput.
MaxEvents == 4

InitInput ==
    /\ impl \in Impls
    /\ state \in {initialState, Cruising(4000, 0)}
    /\ last = Op("init", "", 0)
    /\ ticks = 0
    /\ cmds = 0
    /\ ui = InitialUi
    /\ net = {}

\* An input event: the handlers' results become the state and the memory of
\* the components.
Event(name, arg, s, u) ==
    /\ state' = s
    /\ ui' = u
    /\ last' = Op(name, arg, 0)
    /\ cmds' = cmds + 1
    /\ UNCHANGED <<impl, ticks, net>>

\* mousedown or touchstart on a pedal: Pedal.handleStart / startPress.
PedalDown ==
    /\ cmds < MaxEvents
    /\ \E pedal \in Pedals, e \in {x \in Pointers : OnTrack(x)} :
        Event("pedalDown", pedal,
              IF impl = "react"
              THEN carReducer(state,
                              PedalAction(pedal, Percentage(ReactClientY(e))))
              ELSE IF VanillaThrows(e)
                   THEN state
                   ELSE VanillaSetPedals(state, {pedal}, Percentage(e.clientY)),
              [ui EXCEPT !.isPressed = @ \cup {pedal}])

\* mousedown or touchstart on the steering wheel, which lies inside the
\* viewport: handleStart / startDrag.
WheelDown ==
    /\ cmds < MaxEvents
    /\ \E e \in {x \in Pointers : x.clientY # 0} :
        Event("wheelDown", "", state,
              IF impl = "react"
              THEN [ui EXCEPT !.isDragging = TRUE,
                              !.startAngle = NumSub(ReactGetAngle(e),
                                                    state.steeringAngle)]
              ELSE IF VanillaThrows(e)
                   THEN [ui EXCEPT !.isDragging = TRUE]
                   ELSE [ui EXCEPT !.isDragging = TRUE,
                                   !.startAngle = e.angle - ui.currentRotation])

\* mousemove or touchmove: Pedal.handleMove of each pressed pedal and
\* SteeringWheel.handleMove while dragging (updatePedal and drag in the
\* vanilla page, where a listener that throws changes nothing).
PointerMove ==
    /\ cmds < MaxEvents
    /\ ui.isPressed # {} \/ ui.isDragging
    /\ \E e \in Pointers :
        IF impl = "react"
        THEN LET pressed == ReactSetPedals(state, ui.isPressed,
                                           Percentage(ReactClientY(e)))
                 angle == MathClamp(-540, 540,
                                    NumSub(ReactGetAngle(e), ui.startAngle))
             IN  Event("pointerMove", "",
                       IF ui.isDragging
                       THEN carReducer(pressed, [type |-> "SET_STEERING",
                                                 payload |-> angle])
                       ELSE pressed,
                       ui)
        ELSE IF VanillaThrows(e)
             THEN Event("pointerMove", "", state, ui)
             ELSE LET pressed == VanillaSetPedals(state, ui.isPressed,
                                                  Percentage(e.clientY))
                      angle == MathClamp(-540, 540, e.angle - ui.startAngle)
                  IN  IF ui.isDragging
                      THEN Event("pointerMove", "",
                                 [pressed EXCEPT !.steeringAngle = angle],
                                 [ui EXCEPT !.currentRotation = angle])
                      ELSE Event("pointerMove", "", pressed, ui)

\* mouseup or touchend: Pedal.handleEnd of each pressed pedal and
\* SteeringWheel.handleEnd; in the vanilla page endPress of all three pedals
\* and endDrag.
PointerUp ==
    /\ cmds < MaxEvents
    /\ impl = "react" => (ui.isPressed # {} \/ ui.isDragging)
    /\ Event("pointerUp", "",
             IF impl = "react"
             THEN ReactSetPedals(state, ui.isPressed, 0)
             ELSE VanillaSetPedals(state, Pedals, 0),
             [ui EXCEPT !.isPressed = {}, !.isDragging = FALSE])

\* keydown of a pedal or arrow key (in React only the first keydown of a key
\* that is held passes the repeat filter).
KeyDown ==
    /\ cmds < MaxEvents
    /\ \E key \in Keys :
        /\ impl = "react" => key \notin ui.keysPressed
        /\ IF impl = "react"
           THEN Event("keyDown", key, ReactKeyDown(state, key),
                      [ui EXCEPT !.keysPressed = @ \cup {key}])
           ELSE IF key \in {"ArrowLeft", "ArrowRight"}
                THEN LET rotation == VanillaArrow(ui.currentRotation, key)
                     IN  Event("keyDown", key,
                               [state EXCEPT !.steeringAngle = rotation],
                               [ui EXCEPT !.currentRotation = rotation,
                                          !.keysPressed = @ \cup {key}])
                ELSE Event("keyDown", key, VanillaKeyDown(state, key),
                           [ui EXCEPT !.keysPressed = @ \cup {key}])

\* keyup of a key that is down.
KeyUp ==
    /\ cmds < MaxEvents
    /\ \E key \in ui.keysPressed :
        Event("keyUp", key,
              IF impl = "react" THEN ReactKeyUp(state, key)
                                ELSE VanillaKeyUp(state, key),
              [ui EXCEPT !.keysPressed = @ \ {key}])

\* One animation frame, 100 ms after the previous one.
InputFrame ==
    /\ ticks < MaxTicks
    /\ state' = IF impl = "react" THEN ReactGameLoop(state, 100)
                                 ELSE VanillaGameLoop(state, 100)
    /\ last' = Op("gameLoop", "", 100)
    /\ ticks' = ticks + 1
    /\ UNCHANGED <<impl, cmds, ui, net>>

NextInput ==
    \/ PedalDown
    \/ WheelDown
    \/ PointerMove
    \/ PointerUp
    \/ KeyDown
    \/ KeyUp
    \/ InputFrame

SpecInput == InitInput /\ [][NextInput]_vars

-----------------------------------------------------------------------------
(* Destination, geocoding and routing *)

\* A point 22 m north of the default position and one 1.1 km north of it.
NearDestination ==
    [lat |-> DefaultPosition.lat + 2000, lng |-> DefaultPosition.lng]
FarDestination ==
    [lat |-> DefaultPosition.lat + 100000, lng |-> DefaultPosition.lng]
Destinations == {NearDestination, FarDestination}

\* The places the address typed into the destination box stands for.
Addresses == {FarDestination}

\* Number of destination commands and of frames of a behaviour of SpecRoute.
MaxRouteCmds == 2
MaxRouteTicks == 1

\* The destination fields of the state.
Snapshot(s) ==
    [destination |-> s.destination, route |-> s.route,
     distance |-> s.distance]

\* A fetch() issued by a handler running in state s: kind is "geocode"
\* (nominatim) or "route" (OSRM), seq numbers the requests in the order of
\* issue, from is state.position as the handler sees it, to is the
\* destination asked for, before is the destination fields on entry to the
\* handler.  net keeps every request with its status: "pending" while the
\* promise is unsettled, then "delivered" or "failed".
Request(kind, from, to, s) ==
    [kind |-> kind, seq |-> Cardinality(net), from |-> from, to |-> to,
     before |-> Snapshot(s), status |-> "pending"]

Pending(kind) == {r \in net : r.kind = kind /\ r.status = "pending"}

Settle(r, status) == (net \ {r}) \cup {[r EXCEPT !.status = status]}

\* dispatch SET_DESTINATION / this.state.destination = dest.
SetDestination(s, d) ==
    IF impl = "react"
    THEN carReducer(s, [type |-> "SET_DESTINATION", payload |-> d])
    ELSE [s EXCEPT !.destination = <<d>>]

\* data.routes[0] of the answer to request r: the route between the two
\* points of the request and its length along the road.
RouteOf(r) ==
    [route |-> [from |-> r.from, to |-> r.to],
     distance |-> Distance(r.from, r.to, "road")]

\* The continuation of the routing fetch with a route in the answer.  The
\* vanilla page stores the route, then reads this.state.destination.lat for
\* fitBounds: with the destination cleared meanwhile that throws, and the
\* distance display is not written.
DeliverRoute(s, r) ==
    IF impl = "react"
    THEN carReducer(s, [type |-> "SET_ROUTE", payload |-> RouteOf(r)])
    ELSE [s EXCEPT !.route = <<RouteOf(r).route>>,
                   !.distance = IF s.destination = Null
                                THEN @
                                ELSE <<RouteOf(r).distance>>]

\* CLEAR_ROUTE / CarSimulator.clearRoute.
ClearRoute(s) ==
    IF impl = "react"
    THEN carReducer(s, [type |-> "CLEAR_ROUTE"])
    ELSE VanillaClearRoute(s)

\* The request of a map click on the far destination made while cruising
\* from the default position with no destination set, answered with a route.
AnsweredRequest ==
    [kind |-> "route", seq |-> 0, from |-> DefaultPosition,
     to |-> FarDestination, before |-> Snapshot(initialState),
     status |-> "delivered"]

\* The vehicle is at rest or cruising with no destination, or cruising with
\* the route of AnsweredRequest in place.
InitRoute ==
    /\ impl \in Impls
    /\ \/ /\ state \in {initialState, Cruising(4000, 0)}
          /\ net = {}
       \/ /\ state = DeliverRoute(SetDestination(Cruising(4000, 0),
                                                 FarDestination),
                                  AnsweredRequest)
          /\ net = {AnsweredRequest}
    /\ last = Op("init", "", 0)
    /\ ticks = 0
    /\ cmds = 0
    /\ ui = InitialUi

\* A click on the map: handleMapClick / this.map.on('click').
MapClick ==
    /\ cmds < MaxRouteCmds
    /\ \E d \in Destinations :
        /\ state' = SetDestination(state, d)
        /\ net' = net \cup {Request("route", state.position, d, state)}
    /\ last' = Op("mapClick", "", 0)
    /\ cmds' = cmds + 1
    /\ UNCHANGED <<impl, ticks, ui>>

\* The Set Destination button with an address typed in:
\* handleSetDestination / setDestBtn click start the geocoding fetch.
SetDestinationButton ==
    /\ cmds < MaxRouteCmds
    /\ \E d \in Addresses :
        net' = net \cup {Request("geocode", state.position, d, state)}
    /\ last' = Op("setDestination", "", 0)
    /\ cmds' = cmds + 1
    /\ UNCHANGED <<impl, state, ticks, ui>>

\* The geocoder found the address: selectDestination(data[0]) in React, which
\* routes from the position its closure holds; the vanilla continuation
\* sets the destination and calls calculateRoute, which routes from the
\* position of that moment.
GeocodeResponse ==
    /\ \E r \in Pending("geocode") :
        /\ state' = SetDestination(state, r.to)
        /\ net' = Settle(r, "delivered")
                    \cup {Request("route",
                                  IF impl = "react" THEN r.from
                                                    ELSE state.position,
                                  r.to, state)}
    /\ last' = Op("geocodeResponse", "", 0)
    /\ UNCHANGED <<impl, ticks, cmds, ui>>

\* The geocoding fetch rejected or returned no result: an alert or a console
\* message.
GeocodeFailed ==
    /\ \E r \in Pending("geocode") : net' = Settle(r, "failed")
    /\ last' = Op("geocodeFailed", "", 0)
    /\ UNCHANGED <<impl, state, ticks, cmds, ui>>

\* The routing service answered with a route.
RouteResponse ==
    /\ \E r \in Pending("route") :
        /\ state' = DeliverRoute(state, r)
        /\ net' = Settle(r, "delivered")
    /\ last' = Op("routeResponse", "", 0)
    /\ UNCHANGED <<impl, ticks, cmds, ui>>

\* The routing fetch rejected or its answer holds no route: a console
\* message at most.
RouteFailed ==
    /\ \E r \in Pending("route") : net' = Settle(r, "failed")
    /\ last' = Op("routeFailed", "", 0)
    /\ UNCHANGED <<impl, state, ticks, cmds, ui>>

\* The Clear Route button.
ClearRouteButton ==
    /\ cmds < MaxRouteCmds
    /\ state' = ClearRoute(state)
    /\ last' = Op("clearRoute", "", 0)
    /\ cmds' = cmds + 1
    /\ UNCHANGED <<impl, ticks, ui, net>>

\* One animation frame, 100 ms after the previous one.
RouteFrame ==
    /\ ticks < MaxRouteTicks
    /\ state' = IF impl = "react" THEN ReactGameLoop(state, 100)
                                 ELSE VanillaGameLoop(state, 100)
    /\ last' = Op("gameLoop", "", 100)
    /\ ticks' = ticks + 1
    /\ UNCHANGED <<impl, cmds, ui, net>>

NextRoute ==
    \/ MapClick
    \/ SetDestinationButton
    \/ GeocodeResponse
    \/ GeocodeFailed
    \/ RouteResponse
    \/ RouteFailed
    \/ ClearRouteButton
    \/ RouteFrame

SpecRoute == InitRoute /\ [][NextRoute]_vars

-----------------------------------------------------------------------------
(* Properties *)

IsGearRequest(l) == l.op \in {"gearButton", "gearKey"}

\* The elapsed time a step works with: React clamps it to 0.1 s.
EffectiveDt(d) == IF impl = "react" THEN Min(d, 100) ELSE d

EngineBrakeRate ==
    IF impl = "react" THEN physics.engineBrake ELSE vanillaPhysics.engineBrake

GearOneCap ==
    IF impl = "react" THEN physics.maxSpeed["1"] * 100
                      ELSE vanillaPhysics.maxSpeed[GearIndex("1") + 1] * 100

\* C1 (as claimed): in the React implementation, whenever the selected gear
\* is not Neutral the speed is within [0, maximum speed of that gear].
C1_SpeedWithinGearCap ==
    (impl = "react" /\ state.gear # "N")
        => (state.speed >= 0
            /\ state.speed <= physics.maxSpeed[state.gear] * 100)

\* C2 (as claimed): a gear-change request, by key or button, made with
\* clutch <= 70 and speed >= 5 km/h leaves the gear as it was.
C2_GearRequestRejected ==
    [][(IsGearRequest(last') /\ state.clutch <= 70 /\ state.speed >= 500)
          => state'.gear = state.gear]_vars

\* C3: a gear-change request made with clutch > 70 or speed < 5 km/h sets
\* the gear to the requested one and changes nothing else; every request
\* either does exactly that or changes no field of the state.
C3_GearRequestFrame ==
    [][IsGearRequest(last')
          => /\ (state.clutch > 70 \/ state.speed < 500)
                    => state' = [state EXCEPT !.gear = last'.gear]
             /\ \/ state' = [state EXCEPT !.gear = last'.gear]
                \/ state' = state]_vars

\* C3 witness: a request for gear 3 was accepted at 5 km/h or more because
\* the clutch was pressed beyond 70.
C3_Witness ==
    /\ last.op = "gearKey"
    /\ last.gear = "3"
    /\ state.gear = "3"
    /\ state.speed >= 500
    /\ state.clutch > 70

\* C4 (as claimed): toggling the engine off sets engineOn to false and rpm
\* to 0 and leaves speed and every other field unchanged.
C4_ToggleOffKeepsSpeed ==
    [][(last'.op = "toggleEngine" /\ state.engineOn)
          => state' = [state EXCEPT !.engineOn = FALSE, !.rpm = 0]]_vars

\* C5: a step with the engine off yields rpm = 0 and
\* speed' = max(0, speed - engineBrake * dt), hence speed' <= speed,
\* whatever the pedals, the gear and the steering angle are.
C5_EngineOffStep ==
    [][(last'.op = "step" /\ ~state.engineOn)
          => /\ state'.rpm = 0
             /\ state'.speed =
                    Max(0, state.speed
                            - (EngineBrakeRate * EffectiveDt(last'.dt)) \div 10)
             /\ state'.speed <= state.speed]_vars

\* C5 witness: a React step with the engine off and the accelerator held in
\* gear 1 has slowed the vehicle, which is still rolling.
C5_Witness ==
    /\ impl = "react"
    /\ last.op = "step"
    /\ last.dt = 100
    /\ ~state.engineOn
    /\ state.rpm = 0
    /\ state.speed = 3960
    /\ state.accelerator = 100
    /\ state.gear = "1"

\* C6 (as claimed): a frame run with the engine off leaves heading and
\* position as they were, in both implementations.
C6_EngineOffFrameKeepsPosition ==
    [][(last'.op = "gameLoop" /\ ~state.engineOn)
          => /\ state'.heading = state.heading
             /\ state'.position = state.position]_vars

\* C7 (as claimed): a step with dt = 0 leaves speed, rpm, heading and
\* position equal to those of the state before it.
C7_ZeroDtKeepsNumericFields ==
    [][(last'.op = "step" /\ last'.dt = 0)
          => /\ state'.speed = state.speed
             /\ state'.rpm = state.rpm
             /\ state'.heading = state.heading
             /\ state'.position = state.position]_vars

\* In Reverse with the clutch engaged and the accelerator pressed, a speed
\* above the reverse cap of 30 km/h is cut to the cap by the step itself
\* (the vanilla step does so below 40 km/h only).
ReverseCapCuts(s) ==
    /\ s.engineOn
    /\ s.gear = "R"
    /\ s.clutch < 50
    /\ s.accelerator > 0
    /\ s.speed > 3000
    /\ impl = "vanilla" => s.speed < 4000

\* C7 (amended): a step with dt = 0 leaves heading and position unchanged
\* and leaves speed unchanged, except that in Reverse a speed above the
\* reverse cap is cut to the cap; with the engine off rpm stays 0 (with the
\* engine on rpm is recomputed from the pedals, gear and speed).
C7_ZeroDtStep ==
    [][(last'.op = "step" /\ last'.dt = 0)
          => /\ state'.heading = state.heading
             /\ state'.position = state.position
             /\ state'.speed = IF ReverseCapCuts(state) THEN 3000
                                                        ELSE state.speed
             /\ ~state.engineOn => state'.rpm = state.rpm]_vars

\* C7 witness: a step with dt = 0 was applied to a moving vehicle with the
\* engine on, the wheel turned and the brake pressed.
C7_Witness ==
    /\ last.op = "step"
    /\ last.dt = 0
    /\ state.engineOn
    /\ state.speed = 4000
    /\ state.steeringAngle = 540
    /\ state.brake = 100

\* C8: at full throttle in gear 1 with the clutch released and no brake,
\* from standstill and with frames at a fixed positive interval, each frame
\* raises the speed as long as it is below the gear-1 cap, and the speed
\* never exceeds the cap.
C8_FullThrottleGearOne ==
    /\ [](state.speed <= GearOneCap)
    /\ [][state.speed < GearOneCap => state'.speed > state.speed]_vars

\* C8 witness: the React vehicle has reached the gear-1 cap.
C8_Witness ==
    /\ impl = "react"
    /\ last.op = "gameLoop"
    /\ state.speed = GearOneCap
    /\ state.gear = "1"
    /\ state.accelerator = 100

\* C9 (as claimed): rpm is within [0, maxRpm] in every reachable state of
\* both implementations.
C9_RpmWithinRange ==
    /\ state.rpm >= 0
    /\ state.rpm <= (IF impl = "react" THEN physics.maxRpm
                                       ELSE vanillaPhysics.maxRpm)

C11_HeadingNormalized ==
    /\ state.heading >= 0
    /\ state.heading < 360000

\* C12 (as claimed): after any sequence of input events steeringAngle is
\* within [-540, 540] and clutch, brake and accelerator are within [0, 100].
C12_InputsWithinRange ==
    /\ state.steeringAngle >= -540
    /\ state.steeringAngle <= 540
    /\ \A pedal \in Pedals : state[pedal] >= 0 /\ state[pedal] <= 100

\* The change of heading from a to b in 1/1000 degree, within (-180, 180].
HeadingChange(a, b) ==
    LET d == (b - a) % 360000
    IN  IF d > 180000 THEN d - 360000 ELSE d

\* The state that differs from s by being in Reverse.
InReverse(s) == [s EXCEPT !.gear = "R"]

\* The step is taken in a forward gear with a nonzero steering angle at a
\* speed above the movement threshold (0.5 km/h in React, 0.1 km/h vanilla).
SteeredForwardStep ==
    /\ last'.op = "step"
    /\ state.gear \notin {"N", "R"}
    /\ state.steeringAngle # 0
    /\ state.speed > (IF impl = "react" THEN 50 ELSE 10)

\* C13 (as claimed): the same step taken in Reverse changes heading by the
\* same amount with the opposite sign.
C13_ReverseMirrorsHeadingChange ==
    [][SteeredForwardStep
          => HeadingChange(state.heading,
                           StepResult(InReverse(state), last'.dt).heading)
                = -HeadingChange(state.heading, state'.heading)]_vars

\* C13 (amended): the same step taken in Reverse never turns the vehicle the
\* same way, and it changes heading by the same amount with the opposite
\* sign whenever it ends at the same speed, which it does with the engine
\* off, the accelerator released or the clutch not engaged.
C13_ReverseTurnsTheOtherWay ==
    [][SteeredForwardStep
          => LET reversed == StepResult(InReverse(state), last'.dt)
                 forward == HeadingChange(state.heading, state'.heading)
                 backward == HeadingChange(state.heading, reversed.heading)
             IN  /\ forward > 0 => backward <= 0
                 /\ forward < 0 => backward >= 0
                 /\ reversed.speed = state'.speed => backward = -forward
                 /\ (~state.engineOn \/ state.accelerator = 0
                        \/ ~ClutchEngaged(state))
                        => reversed.speed = state'.speed]_vars

\* C13 witness: a step in gear 2 with the wheel fully to the left and the
\* accelerator released has turned the vehicle from heading 0 through North
\* to a heading just below 360.
C13_Witness ==
    /\ last.op = "step"
    /\ last.dt = 100
    /\ state.engineOn
    /\ state.gear = "2"
    /\ state.steeringAngle = -540
    /\ state.accelerator = 0
    /\ state.speed > 3000
    /\ state.heading > 350000

BrakeForceRate ==
    IF impl = "react" THEN physics.brakeForce ELSE vanillaPhysics.brakeForce

\* C17 (as claimed): in an engine-on step with the brake pressed at a speed
\* above 0 in Neutral or with clutch >= 50, the speed becomes
\* max(0, speed - 0.5 * engineBrake * dt - brakeForce * (brake / 100) * dt).
C17_BrakeAppliesWhileCoasting ==
    [][(/\ last'.op = "step"
        /\ state.engineOn
        /\ state.brake > 0
        /\ state.speed > 0
        /\ (state.gear = "N" \/ state.clutch >= 50))
          => state'.speed
               = Max(0, state.speed
                         - SpeedDrop(EngineBrakeRate, 1, 2,
                                     EffectiveDt(last'.dt))
                         - SpeedDrop(BrakeForceRate, state.brake, 100,
                                     EffectiveDt(last'.dt)))]_vars

\* C18 (as claimed): with brake and accelerator both at 100, the engine on,
\* a forward gear and the clutch engaged, a step from speed 0 leaves the
\* speed at 0 and the position unchanged.
C18_BrakeHoldsStandstill ==
    [][(/\ last'.op = "step"
        /\ state.engineOn
        /\ state.gear \notin {"N", "R"}
        /\ ClutchEngaged(state)
        /\ state.brake = 100
        /\ state.accelerator = 100
        /\ state.speed = 0)
          => /\ state'.speed = 0
             /\ state'.position = state.position]_vars

\* The handler just run has set a destination: a map click or the
\* continuation of a successful geocoding.
DestinationJustSet == last.op \in {"mapClick", "geocodeResponse"}

\* C14: clearing the route right after a destination was set leaves
\* destination, route and distance null, whatever they were before.
C14_SetThenClear ==
    [][(DestinationJustSet /\ last'.op = "clearRoute")
          => /\ state'.destination = Null
             /\ state'.route = Null
             /\ state'.distance = Null]_vars

\* C14 witness: with a destination, a route and a distance in place a new
\* destination was set (its routing request is still pending) and the route
\* was cleared at once; all three fields are null.
C14_Witness ==
    /\ last.op = "clearRoute"
    /\ ticks = 0
    /\ cmds = 2
    /\ Snapshot(state) = Snapshot(initialState)
    /\ \E r \in Pending("route") :
        /\ r.before.destination # Null
        /\ r.before.route # Null
        /\ r.before.distance # Null

\* C15 (as claimed): once every request has been answered, at least two
\* routes among them, the stored route and distance are those computed for
\* the stored destination.
C15_LatestRequestWins ==
    (/\ \A r \in net : r.status = "delivered"
     /\ Cardinality({r \in net : r.kind = "route"}) >= 2
     /\ state.destination # Null)
        => /\ state.route # Null
           /\ state.route[1].to = state.destination[1]
           /\ state.distance # Null
           /\ state.distance[1].to = state.destination[1]

\* C16 (as claimed): when a geocoding or routing request fails, destination,
\* route and distance are what they were when its handler was entered.
C16_FailedRequestChangesNothing ==
    [][last'.op \in {"geocodeFailed", "routeFailed"}
          => \A r \in net :
                (r.status = "pending" /\ r \notin net')
                    => Snapshot(state') = r.before]_vars

\* C19 (as claimed): whenever a destination is set, the stored distance is
\* the distance between the current position and the current destination.
C19_DistanceIsCurrent ==
    state.destination # Null
        => state.distance
             \in {<<Distance(state.position, state.destination[1], via)>> :
                     via \in {"road", "line"}}

\* C20 (as claimed): after a tick no destination is left set within 50 m of
\* the vehicle: arrival has cleared it.
C20_ArrivalClearsDestination ==
    [][last'.op = "gameLoop"
          => ~(/\ state'.destination # Null
               /\ WithinFiftyMetres(state'.position,
                                    state'.destination[1]))]_vars

\* The largest elapsed time a step may work with: the 0.1 s of the React
\* clamp; for the vanilla loop, which has no clamp, the 0.5 s above which
\* the React loop runs no step at all.
ClampBound == IF impl = "react" THEN 100 ELSE 500

\* C21 (as claimed): whatever the gap between two frames, a frame changes
\* the speed by no more than a step of the clamp bound does.
C21_FrameStepIsClamped ==
    [][last'.op = "gameLoop"
          => Abs(state'.speed - state.speed)
                <= Abs(StepResult(state, ClampBound).speed - state.speed)]_vars

\* C22: with the engine off no frame increases the speed, and with frames
\* recurring the speed eventually is 0 and stays 0.
C22_EngineOffComesToRest ==
    /\ [][~state.engineOn => state'.speed <= state.speed]_vars
    /\ <>[](state.speed = 0)

\* C22 witness: engine off, accelerator held down in gear 1 with the clutch
\* engaged; the vehicle has rolled away from where it was and stands still.
C22_Witness ==
    /\ last.op = "gameLoop"
    /\ ~state.engineOn
    /\ state.gear = "1"
    /\ state.accelerator = 100
    /\ state.clutch = 0
    /\ state.position # DefaultPosition
    /\ state.speed = 0

\* C23: following the driving procedure with frames recurring, the speed
\* eventually exceeds the movement threshold, the position changes, and the
\* speed eventually is the gear-1 cap and stays there.
C23_ProcedureGetsMoving ==
    /\ <>(state.speed > (IF impl = "react" THEN 50 ELSE 10))
    /\ <>(state.position # DefaultPosition)
    /\ <>[](state.speed = GearOneCap)

\* C23 witness: the procedure is complete, the vehicle has left its place
\* and runs at the gear-1 cap.
C23_Witness ==
    /\ cmds = Len(DriveProcedure)
    /\ last.op = "gameLoop"
    /\ state.engineOn
    /\ state.gear = "1"
    /\ state.accelerator = 100
    /\ state.position # DefaultPosition
    /\ state.speed = GearOneCap

\* C24: a step increases the speed only with the engine on, a gear other
\* than Neutral, clutch < 50 and the accelerator pressed.
C24_SpeedRisesOnlyUnderPropulsion ==
    [][(last'.op = "step" /\ state'.speed > state.speed)
          => /\ state.engineOn
             /\ state.gear # "N"
             /\ state.clutch < 50
             /\ state.accelerator > 0]_vars

\* C24 witness: a step in gear 3 at full throttle with the clutch engaged
\* has raised the speed above the 60 km/h it started from.
C24_Witness ==
    /\ last.op = "step"
    /\ state.engineOn
    /\ state.gear = "3"
    /\ state.clutch = 0
    /\ state.brake = 0
    /\ state.accelerator = 100
    /\ state.speed > 6000
    /\ state.speed < 20000

\* rpm of the clutch-disengaged regime: idle plus the throttle's share of the
\* span up to maxRpm (80 % of it in React, rounded).
DisengagedRpm(s) ==
    IF impl = "react"
    THEN MathRound10(physics.idleRpm * 10
                       + (s.accelerator * (physics.maxRpm - physics.idleRpm)
                            * 8) \div 100)
    ELSE vanillaPhysics.idleRpm
           + (s.accelerator
                * (vanillaPhysics.maxRpm - vanillaPhysics.idleRpm)) \div 100

\* C25 (as claimed): in an engine-on step with clutch >= 50, clutch = 50
\* included, propulsion is skipped and rpm follows the clutch-disengaged
\* formula.
C25_ClutchThresholdIsFifty ==
    [][(last'.op = "step" /\ state.engineOn /\ state.clutch >= 50)
          => /\ state'.speed <= state.speed
             /\ state'.rpm = DisengagedRpm(state)]_vars

\* C26: a React step whose resulting speed is at most 0.5 km/h leaves
\* heading and position as they were, whatever the steering angle and gear.
C26_StationaryStepFreezesPose ==
    [][(last'.op = "step" /\ impl = "react" /\ state'.speed <= 50)
          => /\ state'.heading = state.heading
             /\ state'.position = state.position]_vars

\* C26 witness: a React step in Reverse with the wheel fully to the right has
\* ended at a speed above 0 and at most 0.5 km/h; heading and position are
\* those it started from.
C26_Witness ==
    /\ last.op = "step"
    /\ last.dt = 100
    /\ impl = "react"
    /\ state.engineOn
    /\ state.gear = "R"
    /\ state.steeringAngle = 540
    /\ state.speed > 0
    /\ state.speed <= 50
    /\ state.heading = 90000
    /\ state.position = DefaultPosition

\* The speed s ends at is in the moving range: above 0.5 km/h in React,
\* at least 0.1 km/h in the vanilla page.
InMovingRange(s) == IF impl = "react" THEN s.speed > 50 ELSE s.speed >= 10

\* The state that differs from s by its speed.
AtSpeed(s, v) == [s EXCEPT !.speed = v]

\* C27 (as claimed): with a nonzero steering angle, a step of dt > 0 that
\* ends in the moving range changes heading, and the same step taken at any
\* higher speed does not change it by more.
C27_SteeringAuthorityFallsWithSpeed ==
    [][(/\ last'.op = "step"
        /\ last'.dt > 0
        /\ state.engineOn
        /\ state.steeringAngle # 0
        /\ InMovingRange(state'))
          => /\ HeadingChange(state.heading, state'.heading) # 0
             /\ \A v \in StepSpeeds :
                  v > state.speed
                    => Abs(HeadingChange(state.heading,
                                         StepResult(AtSpeed(state, v),
                                                    last'.dt).heading))
                         <= Abs(HeadingChange(state.heading,
                                              state'.heading))]_vars

\* The step is taken with the engine on in a forward gear with the wheel
\* centred, and has moved the vehicle.
StraightForwardStep ==
    /\ last'.op = "step"
    /\ state.engineOn
    /\ state.gear \notin {"N", "R"}
    /\ state.steeringAngle = 0
    /\ InMovingRange(state')
    /\ state'.position # state.position

\* C28 (as claimed): driving straight ahead at heading 0 increases latitude
\* and leaves longitude unchanged; at heading 90 it increases longitude and
\* leaves latitude unchanged.
C28_HeadingZeroIsNorth ==
    [][StraightForwardStep
          => /\ state.heading = 0
                  => /\ state'.position.lat > state.position.lat
                     /\ state'.position.lng = state.position.lng
             /\ state.heading = 90000
                  => /\ state'.position.lng > state.position.lng
                     /\ state'.position.lat = state.position.lat]_vars

\* The step is taken in a forward gear with the wheel centred.
StraightStep ==
    /\ last'.op = "step"
    /\ state.gear \notin {"N", "R"}
    /\ state.steeringAngle = 0

\* C29: with the wheel centred, the same step taken in Reverse and ending at
\* the same speed changes latitude and longitude by the negation of the
\* change of the forward step.
C29_ReverseNegatesDisplacement ==
    [][StraightStep
          => LET reversed == StepResult(InReverse(state), last'.dt)
             IN  reversed.speed = state'.speed
                    => /\ reversed.position.lat - state.position.lat
                            = -(state'.position.lat - state.position.lat)
                       /\ reversed.position.lng - state.position.lng
                            = -(state'.position.lng - state.position.lng)]_vars

\* C29 witness: a step in gear 2 with the wheel centred and the accelerator
\* released, at heading 90, has moved the vehicle to a higher latitude.
C29_Witness ==
    /\ last.op = "step"
    /\ state.engineOn
    /\ state.gear = "2"
    /\ state.steeringAngle = 0
    /\ state.accelerator = 0
    /\ state.heading = 90000
    /\ state.speed > 3000
    /\ state.position.lat > DefaultPosition.lat

\* C30 (as claimed): every reachable position has its latitude within
\* [-90, 90] and its longitude within [-180, 180].
C30_PositionWithinRange ==
    /\ state.position.lat >= -900000000
    /\ state.position.lat <= 900000000
    /\ state.position.lng >= -1800000000
    /\ state.position.lng <= 1800000000

-----------------------------------------------------------------------------
(* Backend synchronisation and geolocation *)

\* Number of frames and of operator commands of a behaviour of SpecSync.
MaxSyncTicks == 2
MaxSyncCmds == 1

\* navigator.geolocation.getCurrentPosition: the vanilla page calls it while
\* the map is set up, the React panel when "use current location" is
\* clicked.  The request carries no state; to is the position the browser
\* will report.
GeolocationRequest(seq, s, p) ==
    [kind |-> "geolocation", seq |-> seq, from |-> s.position,
     to |-> <<p>>, before |-> Snapshot(s), status |-> "pending"]

\* The page is loaded with the vehicle coasting; the vanilla page has asked
\* for the location.
InitSync ==
    /\ impl \in Impls
    /\ state \in {Cruising(v, c) : v \in CruiseSpeeds, c \in {0, 100}}
    /\ last = Op("init", "", 0)
    /\ ticks = 0
    /\ cmds = 0
    /\ ui = InitialUi
    /\ net \in IF impl = "vanilla"
               THEN {{GeolocationRequest(0, state, p)} : p \in StartPositions}
               ELSE {{}}

\* One animation frame.  The vanilla loop calls sendStateToBackend when the
\* clock reads less than 20 ms past a multiple of 500 ms (send): the body of
\* the POST is the state at that moment, from is the position it carries.
SyncFrame ==
    /\ ticks < MaxSyncTicks
    /\ \E gap \in Gaps, send \in BOOLEAN :
        /\ state' = IF impl = "react" THEN ReactGameLoop(state, gap)
                                     ELSE VanillaGameLoop(state, gap)
        /\ net' = IF impl = "vanilla" /\ send
                  THEN net \cup {Request("update", state'.position, Null,
                                         state')}
                  ELSE net
        /\ last' = Op("gameLoop", "", gap)
    /\ ticks' = ticks + 1
    /\ UNCHANGED <<impl, cmds, ui>>

\* The backend answers an update request: data.position holds nothing or
\* the position the backend was sent, and when it holds one it is assigned
\* to this.state.position.
BackendReply ==
    \E r \in Pending("update") : \E p \in {Null, <<r.from>>} :
        /\ state' = IF p # Null THEN [state EXCEPT !.position = p[1]]
                                ELSE state
        /\ net' = Settle(r, "delivered")
        /\ last' = Op("backendReply", "", 0)
        /\ UNCHANGED <<impl, ticks, cmds, ui>>

\* The backend is not running or answers with an error status.
BackendFailed ==
    \E r \in Pending("update") :
        /\ net' = Settle(r, "failed")
        /\ last' = Op("backendFailed", "", 0)
        /\ UNCHANGED <<impl, state, ticks, cmds, ui>>

\* React only: the operator clicks "use current location".
UseCurrentLocation ==
    /\ impl = "react"
    /\ cmds < MaxSyncCmds
    /\ \E p \in StartPositions :
        net' = net \cup {GeolocationRequest(Cardinality(net), state, p)}
    /\ last' = Op("useCurrentLocation", "", 0)
    /\ cmds' = cmds + 1
    /\ UNCHANGED <<impl, state, ticks, ui>>

\* The browser reports the location: the success callback dispatches
\* SET_START_POSITION in React; in the vanilla page it assigns the position
\* and calls updateMapPosition.
GeolocationResult ==
    \E r \in Pending("geolocation") :
        /\ state' = IF impl = "react"
                    THEN carReducer(state, [type |-> "SET_START_POSITION",
                                            payload |-> r.to[1]])
                    ELSE VanillaUpdateMapPosition(
                             [state EXCEPT !.position = r.to[1]])
        /\ net' = Settle(r, "delivered")
        /\ last' = Op("geolocationResult", "", 0)
        /\ UNCHANGED <<impl, ticks, cmds, ui>>

\* The browser reports that the location is not available.
GeolocationFailed ==
    \E r \in Pending("geolocation") :
        /\ net' = Settle(r, "failed")
        /\ last' = Op("geolocationFailed", "", 0)
        /\ UNCHANGED <<impl, state, ticks, cmds, ui>>

NextSync ==
    \/ SyncFrame
    \/ BackendReply
    \/ BackendFailed
    \/ UseCurrentLocation
    \/ GeolocationResult
    \/ GeolocationFailed

SpecSync == InitSync /\ [][NextSync]_vars

\* C31 (as claimed): the position is changed only by the physics step
\* (gameLoop) and by operator commands; no asynchronous callback (backend
\* reply, geolocation result) assigns it, so a reply computed from an earlier
\* state never moves the vehicle.
C31_PositionWrittenByStepOrCommand ==
    [][state'.position # state.position
          => last'.op \in {"gameLoop", "useCurrentLocation"}]_vars

\* C32: setting a destination, a route response and clearing the route
\* change only destination, route and distance; and a frame, arrival
\* handling included, leaves the vehicle exactly where the same frame leaves
\* it with no destination and no route: the vehicle does not stop on arrival
\* and the step reads neither field.
C32_BookkeepingLeavesVehicleAlone ==
    [][LET Vehicle(s) == [s EXCEPT !.destination = Null, !.route = Null,
                                   !.distance = Null]
           Frame(s, dt) == IF impl = "react" THEN ReactGameLoop(s, dt)
                                             ELSE VanillaGameLoop(s, dt)
       IN  /\ last'.op \in {"mapClick", "setDestination", "geocodeResponse",
                            "geocodeFailed", "routeResponse", "routeFailed",
                            "clearRoute"}
                 => Vehicle(state') = Vehicle(state)
           /\ last'.op = "gameLoop"
                 => Vehicle(state')
                      = Vehicle(Frame(Vehicle(state), last'.dt))]_vars

\* C32 witness: the only command was a map click on the near destination;
\* the frame after it found the vehicle within 50 m, cleared the destination
\* and left the vehicle moving.
C32_Witness ==
    /\ last.op = "gameLoop"
    /\ cmds = 1
    /\ \E r \in net : r.to = NearDestination /\ r.before.destination = Null
    /\ state.destination = Null
    /\ state.speed > 0
    /\ state.position # DefaultPosition

\* C33: after a React step with the engine on, rpm is the value of the
\* regime chosen in the order clutch >= 50, gear Neutral, in gear, rounded
\* to the nearest integer.  The regime's value is the fraction num / den,
\* with throttle = accelerator / 100 and speedRatio = min(1, speed / cap),
\* cap being the speed cap of the gear.
C33_RpmIsOneOfThreeRegimes ==
    [][LET idle == physics.idleRpm
           maxRpm == physics.maxRpm
           cap == physics.maxSpeed[state.gear] * 100
           num == IF state.clutch >= 50
                  THEN idle * 1000 + state.accelerator * (maxRpm - idle) * 8
                  ELSE IF state.gear = "N"
                  THEN idle + state.accelerator * 40
                  ELSE Min(maxRpm * cap,
                           idle * cap
                             + Min(cap, state.speed) * (maxRpm - idle - 1000)
                             + state.accelerator * 15 * cap)
           den == IF state.clutch >= 50 THEN 1000
                  ELSE IF state.gear = "N" THEN 1 ELSE cap
       IN  (impl = "react" /\ last'.op = "step" /\ state.engineOn)
              => /\ 2 * state'.rpm * den <= 2 * num + den
                 /\ 2 * num + den < 2 * (state'.rpm + 1) * den]_vars

\* C33 witness: a React step in gear 2 with the clutch released and half
\* throttle at 35 km/h has produced an rpm between idle and the maximum.
C33_Witness ==
    /\ impl = "react"
    /\ last.op = "step"
    /\ state.engineOn
    /\ state.gear = "2"
    /\ state.clutch = 0
    /\ state.accelerator = 50
    /\ state.rpm > physics.idleRpm + 750
    /\ state.rpm < physics.maxRpm

\* C34 (as claimed): a route is stored only while a destination is stored;
\* after the route has been cleared, route, destination and distance stay
\* null until a new destination is requested, also when a route response
\* requested before the clear arrives after it.
C34_RouteOnlyWithDestination ==
    state.route # Null => state.destination # Null

-----------------------------------------------------------------------------
(* React: the step works on the state of the last render *)

\* CarProvider renders with state s: updatePhysics is created anew by
\* useCallback(..., [state]) and closes over s; App's effect hands it to the
\* game loop.
Rendered(s) == [kind |-> "render", snapshot |-> s]

\* The state the game loop's updatePhysics closes over.  The vanilla loop
\* reads this.state itself.
LoopState ==
    IF impl = "react"
    THEN (CHOOSE r \in net : r.kind = "render").snapshot
    ELSE state

InitStale ==
    /\ impl \in Impls
    /\ state \in {Cruising(v, c) : v \in CruiseSpeeds, c \in {0, 100}}
    /\ last = Op("init", "", 0)
    /\ ticks = 0
    /\ cmds = 0
    /\ ui = InitialUi
    /\ net = IF impl = "react" THEN {Rendered(state)} ELSE {}

\* React renders the provider after a dispatch and runs App's effect: from
\* now on the game loop calls the updatePhysics of this render.
Render ==
    /\ impl = "react"
    /\ net # {Rendered(state)}
    /\ net' = {Rendered(state)}
    /\ last' = Op("render", "", 0)
    /\ UNCHANGED <<impl, state, ticks, cmds, ui>>

\* One animation frame: gameLoop calls updatePhysics(deltaTime), which
\* computes the payload from the state it closes over and dispatches it; the
\* reducer merges the payload into the state of that moment.
StaleFrame ==
    /\ ticks < MaxTicks
    /\ \E gap \in CoastGaps :
        /\ state' = IF impl = "react"
                    THEN carReducer(state,
                                    [type |-> "UPDATE_PHYSICS",
                                     payload |-> updatePhysics(LoopState, gap)])
                    ELSE VanillaGameLoop(state, gap)
        /\ last' = Op("gameLoop", "", gap)
    /\ ticks' = ticks + 1
    /\ UNCHANGED <<impl, cmds, ui, net>>

NextStale ==
    \/ ToggleEngine
    \/ SetStartPosition
    \/ ResetCar
    \/ Render
    \/ StaleFrame

SpecStale == InitStale /\ [][NextStale]_vars

\* C35 (as claimed): when a command is applied after the step has read the
\* state and before its result is merged, the speed, rpm, heading and
\* position the command wrote (WrittenBy) are still in the state after the
\* merge.
C35_CommandSurvivesStaleStep ==
    [][LET WrittenBy(op) ==
               CASE op = "toggleEngine" -> {"speed", "rpm"}
                 [] op = "setStartPosition" -> {"speed", "heading", "position"}
                 [] op = "resetCar" -> {"speed", "rpm", "heading"}
                 [] OTHER -> {}
       IN  (impl = "react" /\ last'.op = "gameLoop" /\ LoopState # state)
              => \A f \in WrittenBy(last.op) : state'[f] = state[f]]_vars

\* C36 (as claimed): a pedal held at 100 by its key (W the accelerator, S or
\* Space the brake, C the clutch) stays at 100 through every mouse or touch
\* event that occurs while the key is down.
C36_HeldKeyKeepsPedal ==
    [][LET KeyPedal(key) == CASE key = "w" -> "accelerator"
                              [] key \in {"s", " "} -> "brake"
                              [] key = "c" -> "clutch"
       IN  last'.op \in {"pedalDown", "wheelDown", "pointerMove", "pointerUp"}
              => \A key \in ui.keysPressed \cap {"w", "s", " ", "c"} :
                    state[KeyPedal(key)] = 100
                        => state'[KeyPedal(key)] = 100]_vars

\* C37 (as claimed): of two states that differ in the brake only, stepped
\* with the same dt, the one with the larger brake value does not end with
\* the higher speed.
C37_SpeedMonotoneInBrake ==
    [][last'.op = "step"
          => \A b \in BrakeValues :
                b > state.brake
                    => StepResult([state EXCEPT !.brake = b], last'.dt).speed
                          <= state'.speed]_vars

\* C38 (as claimed): whenever the engine is on, rpm is at least the idle rpm
\* of 800.
C38_RunningEngineAtLeastIdle ==
    state.engineOn => state.rpm >= physics.idleRpm

====
